---- MODULE Spec2Model ----
(***************************************************************************)
(* State-machine model of the SQL multi-database execution tool:           *)
(*   - QueryExecutor (src/app/database/query_executor.py): statement       *)
(*     splitting, per-target execution, result publication;                *)
(*   - SQLToolApp (src/app/core/app_controller.py): the submission guard,  *)
(*     the worker thread and the queue poller of the UI thread;            *)
(*   - DatabaseManager.database_connection (src/app/database/connection.py)*)
(* A SQL text is a sequence of one-character strings.                      *)
(***************************************************************************)
EXTENDS Integers, Sequences, FiniteSets, TLC

\* ------------------------------------------------------------------ bounds
MaxRuns == 2
MaxTargets == 2
MaxChars == 4
MaxWords == 3

\* ------------------------------------------------------------ text helpers
Min(S) == CHOOSE x \in S : \A y \in S : x <= y
Max(S) == CHOOSE x \in S : \A y \in S : x >= y

RECURSIVE Reverse(_)
Reverse(s) == IF s = <<>> THEN <<>> ELSE Append(Reverse(Tail(s)), Head(s))

RECURSIVE Flatten(_)
Flatten(ss) == IF ss = <<>> THEN <<>> ELSE Head(ss) \o Flatten(Tail(ss))

\* str.isspace() on the characters the model uses
IsSpace(c) == c \in {" ", "\n", "\t"}

\* positions of the characters of s that are not whitespace
NonSpaceAt(s) == {i \in 1..Len(s) : ~IsSpace(s[i])}

\* str.strip()
Strip(s) ==
    IF NonSpaceAt(s) = {} THEN <<>>
    ELSE SubSeq(s, Min(NonSpaceAt(s)), Max(NonSpaceAt(s)))

\* str.rstrip()
RStrip(s) ==
    IF NonSpaceAt(s) = {} THEN <<>> ELSE SubSeq(s, 1, Max(NonSpaceAt(s)))

LowerLetters == <<"a","b","c","d","e","f","g","h","i","j","k","l","m",
                  "n","o","p","q","r","s","t","u","v","w","x","y","z">>
UpperLetters == <<"A","B","C","D","E","F","G","H","I","J","K","L","M",
                  "N","O","P","Q","R","S","T","U","V","W","X","Y","Z">>
Digits == {"0","1","2","3","4","5","6","7","8","9"}

\* str.upper() of the lower-case letters
UpperTable ==
    [c \in {LowerLetters[k] : k \in 1..26} |->
        UpperLetters[CHOOSE k \in 1..26 : LowerLetters[k] = c]]

\* str.upper() of one character
UpperChar(c) == IF c \in DOMAIN UpperTable THEN UpperTable[c] ELSE c

Upper(s) == [i \in 1..Len(s) |-> UpperChar(s[i])]

\* the characters str.isalnum() accepts
AlnumChars ==
    {LowerLetters[k] : k \in 1..26} \cup {UpperLetters[k] : k \in 1..26} \cup Digits

\* str.isalnum() of one character
IsAlnum(c) == c \in AlnumChars

\* query[a:b] with 0-based Python slice bounds a, b
Slice(s, a, b) ==
    LET hi == IF b > Len(s) THEN Len(s) ELSE b
    IN  IF a >= hi THEN <<>> ELSE SubSeq(s, a + 1, hi)

\* str.split('\n')
RECURSIVE SplitLines(_)
SplitLines(s) ==
    LET nl == {i \in 1..Len(s) : s[i] = "\n"}
    IN  IF nl = {} THEN <<s>>
        ELSE <<SubSeq(s, 1, Min(nl) - 1)>> \o SplitLines(SubSeq(s, Min(nl) + 1, Len(s)))

\* '\n'.join(lines)
RECURSIVE JoinLines(_)
JoinLines(ls) ==
    IF ls = <<>> THEN <<>>
    ELSE IF Len(ls) = 1 THEN ls[1]
    ELSE ls[1] \o <<"\n">> \o JoinLines(Tail(ls))

\* ------------------------------------------------ regular expressions used
\* \w of one character
IsWordChar(c) == IsAlnum(c) \/ c = "_"

\* \b before position p (1-based): exactly one of s[p-1], s[p] is a word character
WordBoundaryAt(s, p) ==
    (p > 1 /\ IsWordChar(s[p - 1])) # (p <= Len(s) /\ IsWordChar(s[p]))

\* the keyword kw (upper case) stands at position p, letter case ignored
KwAt(s, p, kw) ==
    /\ p >= 1
    /\ p + Len(kw) - 1 <= Len(s)
    /\ \A k \in 1..Len(kw) : UpperChar(s[p + k - 1]) = kw[k]

\* \s at position p
SpaceAt(s, p) == p >= 1 /\ p <= Len(s) /\ IsSpace(s[p])

\* the first position from p on that holds no whitespace (Len(s) + 1 at the end)
SkipSpaces(s, p) == Min({q \in p..(Len(s) + 1) : ~SpaceAt(s, q)})

\* kws[1]\s+kws[2]\s+...kws[n] matched at p: the position after it, or 0
RECURSIVE KwChainEnd(_, _, _)
KwChainEnd(s, p, kws) ==
    IF ~KwAt(s, p, Head(kws)) THEN 0
    ELSE IF Len(kws) = 1 THEN p + Len(Head(kws))
    ELSE IF ~SpaceAt(s, p + Len(Head(kws))) THEN 0
    ELSE KwChainEnd(s, SkipSpaces(s, p + Len(Head(kws))), Tail(kws))

\* \bkw\b at position p
WholeWordAt(s, p, kw) ==
    /\ KwAt(s, p, kw)
    /\ WordBoundaryAt(s, p)
    /\ WordBoundaryAt(s, p + Len(kw))

KwIf == <<"I", "F">>
KwObjectId == <<"O", "B", "J", "E", "C", "T", "_", "I", "D">>
KwIs == <<"I", "S">>
KwNot == <<"N", "O", "T">>
KwNull == <<"N", "U", "L", "L">>
KwDrop == <<"D", "R", "O", "P">>
KwCreate == <<"C", "R", "E", "A", "T", "E">>
KwAlter == <<"A", "L", "T", "E", "R">>
KwProcedure == <<"P", "R", "O", "C", "E", "D", "U", "R", "E">>
KwProc == <<"P", "R", "O", "C">>
KwFunction == <<"F", "U", "N", "C", "T", "I", "O", "N">>
KwFunc == <<"F", "U", "N", "C">>
KwTrigger == <<"T", "R", "I", "G", "G", "E", "R">>
KwView == <<"V", "I", "E", "W">>
KwAs == <<"A", "S">>
KwSelect == <<"S", "E", "L", "E", "C", "T">>
KwExec == <<"E", "X", "E", "C">>
KwExecute == <<"E", "X", "E", "C", "U", "T", "E">>
KwDeclare == <<"D", "E", "C", "L", "A", "R", "E">>

KwDdl == {KwCreate, KwAlter, KwDrop}

\* re.search(r'\b(k1)\s+(k2)\s+') for k1 in K1, k2 in K2
DdlSearch(s, K1, K2) ==
    \E p \in 1..Len(s) : \E k1 \in K1 :
        /\ KwAt(s, p, k1)
        /\ WordBoundaryAt(s, p)
        /\ \E k2 \in K2 :
              /\ KwChainEnd(s, p, <<k1, k2>>) # 0
              /\ SpaceAt(s, KwChainEnd(s, p, <<k1, k2>>))

\* r'\b(CREATE|ALTER|DROP)\s+(PROCEDURE|PROC|FUNCTION|FUNC|TRIGGER)\s+'
RoutineSearch(s) ==
    DdlSearch(s, KwDdl, {KwProcedure, KwProc, KwFunction, KwFunc, KwTrigger})

\* r'\b(CREATE|ALTER|DROP)\s+VIEW\s+.*?\bAS\b.*?\bSELECT\b'
ViewSearch(s) ==
    \E p \in 1..Len(s) : \E k1 \in KwDdl :
        LET e == KwChainEnd(s, p, <<k1, KwView>>) IN
        /\ KwAt(s, p, k1)
        /\ WordBoundaryAt(s, p)
        /\ e # 0
        /\ SpaceAt(s, e)
        /\ \E a \in (e + 1)..Len(s) :
              /\ WholeWordAt(s, a, KwAs)
              /\ \E b \in (a + 2)..Len(s) : WholeWordAt(s, b, KwSelect)

\* r'\b(EXEC|EXECUTE)\s+\w+'
ExecSearch(s) ==
    \E p \in 1..Len(s) : \E k \in {KwExec, KwExecute} :
        /\ KwAt(s, p, k)
        /\ WordBoundaryAt(s, p)
        /\ SpaceAt(s, p + Len(k))
        /\ SkipSpaces(s, p + Len(k)) <= Len(s)
        /\ IsWordChar(s[SkipSpaces(s, p + Len(k))])

\* r'\bDECLARE\s+@\w+'
DeclareSearch(s) ==
    \E p \in 1..Len(s) :
        LET q == SkipSpaces(s, p + Len(KwDeclare)) IN
        /\ KwAt(s, p, KwDeclare)
        /\ WordBoundaryAt(s, p)
        /\ SpaceAt(s, p + Len(KwDeclare))
        /\ q + 1 <= Len(s)
        /\ s[q] = "@"
        /\ IsWordChar(s[q + 1])

\* r'\bBEGIN\b.*?\bEND\b'
BeginEndSearch(s) ==
    \E p \in 1..Len(s) :
        /\ WholeWordAt(s, p, <<"B", "E", "G", "I", "N">>)
        /\ \E q \in (p + 5)..Len(s) : WholeWordAt(s, q, <<"E", "N", "D">>)

\* some pattern of complex_patterns is found in the text
ComplexPatternFound(s) ==
    \/ DdlSearch(s, KwDdl, {KwProcedure, KwProc})
    \/ DdlSearch(s, KwDdl, {KwFunction, KwFunc})
    \/ DdlSearch(s, KwDdl, {KwTrigger})
    \/ ViewSearch(s)
    \/ ExecSearch(s)
    \/ DeclareSearch(s)
    \/ BeginEndSearch(s)

\* The loop over complex_patterns returns [query]: a pattern is found and the
\* text holds a routine or trigger definition, or else an EXEC call.
ReturnedWhole(s) ==
    ComplexPatternFound(s) /\ (RoutineSearch(s) \/ ExecSearch(s))

\* --------------------------------------------------- _split_sql_statements
\* re.search(r'^\s*GO\s*$', line-wise): a line that, trimmed and upper-cased, is GO
IsGoLine(line) == Upper(Strip(line)) = <<"G", "O">>

HasGoLine(query) == \E k \in 1..Len(SplitLines(query)) : IsGoLine(SplitLines(query)[k])

\* re.split on the GO lines: the groups of lines between separator lines
RECURSIVE GroupByGo(_, _)
GroupByGo(lines, acc) ==
    IF lines = <<>> THEN <<JoinLines(acc)>>
    ELSE IF IsGoLine(Head(lines))
         THEN <<JoinLines(acc)>> \o GroupByGo(Tail(lines), <<>>)
         ELSE GroupByGo(Tail(lines), Append(acc, Head(lines)))

\* Faulty variant: every element is stripped, the empty ones are kept.
StripEach(xs) == [k \in 1..Len(xs) |-> Strip(xs[k])]

\* [x.strip() for x in xs if x.strip()]
RECURSIVE StripNonEmpty(_)
StripNonEmpty(xs) ==
    IF xs = <<>> THEN <<>>
    ELSE IF Strip(Head(xs)) = <<>> THEN StripNonEmpty(Tail(xs))
         ELSE <<Strip(Head(xs))>> \o StripNonEmpty(Tail(xs))

\* line[:line.find('--')].rstrip() when '--' occurs in the line
StripLineComment(line) ==
    LET pos == {i \in 1..(Len(line) - 1) : line[i] = "-" /\ line[i + 1] = "-"}
    IN  IF pos = {} THEN line ELSE RStrip(SubSeq(line, 1, Min(pos) - 1))

RemoveLineComments(query) ==
    LET lines == SplitLines(query)
    IN  JoinLines([k \in 1..Len(lines) |-> StripLineComment(lines[k])])

\* re.sub(r'/\*.*?\*/', '', query, flags=re.DOTALL)
RECURSIVE RemoveBlockComments(_)
RemoveBlockComments(s) ==
    LET closes(i) == {j \in (i + 2)..(Len(s) - 1) : s[j] = "*" /\ s[j + 1] = "/"}
        opens == {i \in 1..(Len(s) - 1) :
                      s[i] = "/" /\ s[i + 1] = "*" /\ closes(i) # {}}
    IN  IF opens = {} THEN s
        ELSE LET i == Min(opens)
                 j == Min(closes(i))
             IN  SubSeq(s, 1, i - 1) \o RemoveBlockComments(SubSeq(s, j + 2, Len(s)))

StripComments(query) == Strip(RemoveBlockComments(RemoveLineComments(query)))

\* Faulty variant: the comments of every batch are removed.
GoBatchesWithoutComments(query) ==
    LET batches == GroupByGo(SplitLines(query), <<>>)
    IN  StripNonEmpty([k \in 1..Len(batches) |->
                          RemoveBlockComments(RemoveLineComments(batches[k]))])

\* The batches between the GO lines, trimmed, the empty ones dropped.
GoBatches(query) == StripNonEmpty(GroupByGo(SplitLines(query), <<>>))

\* The guard pattern
\* IF\s+OBJECT_ID\s*\([^)]+\)\s+IS\s+NOT\s+NULL\s+DROP\s+PROCEDURE\s+[^;]+;
\* matched at position p: the position of its closing semicolon, or 0.
DropGuardEndAt(s, p) ==
    LET a == KwChainEnd(s, p, <<KwIf, KwObjectId>>)
        lp == IF a = 0 THEN 0 ELSE SkipSpaces(s, a)
        rps == {j \in (lp + 1)..Len(s) : s[j] = ")"}
        rp == IF rps = {} THEN 0 ELSE Min(rps)
        e == IF rp = 0 \/ ~SpaceAt(s, rp + 1) THEN 0
             ELSE KwChainEnd(s, SkipSpaces(s, rp + 1),
                             <<KwIs, KwNot, KwNull, KwDrop, KwProcedure>>)
        semis == {j \in e..Len(s) : s[j] = ";"}
    IN  IF /\ a # 0
           /\ lp <= Len(s) /\ s[lp] = "("
           /\ rp >= lp + 2
           /\ e # 0
           /\ SpaceAt(s, e)
           /\ semis # {}
           /\ Min(semis) >= e + 2
        THEN Min(semis)
        ELSE 0

\* re.search of the guard pattern: the start of the leftmost match, or 0
DropGuardStart(s) ==
    LET starts == {p \in 1..Len(s) : KwAt(s, p, KwIf) /\ DropGuardEndAt(s, p) # 0}
    IN  IF starts = {} THEN 0 ELSE Min(starts)

\* re.search(r'(CREATE\s+PROCEDURE\s+.*)')
CreateProcedureSearch(s) ==
    \E p \in 1..Len(s) :
        /\ KwChainEnd(s, p, <<KwCreate, KwProcedure>>) # 0
        /\ SpaceAt(s, KwChainEnd(s, p, <<KwCreate, KwProcedure>>))

\* str.startswith
StartsWith(s, prefix) ==
    Len(s) >= Len(prefix) /\ SubSeq(s, 1, Len(prefix)) = prefix

\* Faulty variant: every comment line is skipped, none ends the loop.
CleanCreateLinesSkippingComments(lines, found_create) ==
    SelectSeq(lines, LAMBDA line : ~StartsWith(Strip(line), <<"-", "-">>))

\* The loop over create_lines: comment lines before the CREATE line are
\* skipped, the first comment line after it ends the loop, blank lines before
\* it are dropped.
RECURSIVE CleanCreateLines(_, _)
CleanCreateLines(lines, found_create) ==
    IF lines = <<>> THEN <<>>
    ELSE LET line == Head(lines)
             line_stripped == Strip(line)
             found == found_create \/ StartsWith(Upper(line_stripped), KwCreate)
         IN  IF StartsWith(line_stripped, <<"-", "-">>)
             THEN IF found_create THEN <<>>
                  ELSE CleanCreateLines(Tail(lines), found_create)
             ELSE IF found \/ line_stripped # <<>>
             THEN <<line>> \o CleanCreateLines(Tail(lines), found)
             ELSE CleanCreateLines(Tail(lines), found)

\* cleaned_create_lines of the text after the guard
CreateLinesAfterGuard(query) ==
    LET drop_end == DropGuardEndAt(query, DropGuardStart(query))
    IN  CleanCreateLines(
            SplitLines(Strip(SubSeq(query, drop_end + 1, Len(query)))), FALSE)

\* The guard and a CREATE PROCEDURE are both found and the text after the
\* guard leaves lines: the two parts are returned.
DropCreateReturned(query) ==
    /\ DropGuardStart(query) # 0
    /\ CreateProcedureSearch(query)
    /\ CreateLinesAfterGuard(query) # <<>>

\* [drop_part, create_part]
DropCreateParts(query) ==
    LET p == DropGuardStart(query)
    IN  << Strip(SubSeq(query, p, DropGuardEndAt(query, p))),
           Strip(JoinLines(CreateLinesAfterGuard(query))) >>

\* The scanner's state at the top of the while loop (i is the 0-based index).
ScanInit ==
    [i |-> 0, statements |-> <<>>, current_statement |-> <<>>,
     in_string |-> FALSE, string_char |-> "", in_bracket |-> FALSE,
     paren_depth |-> 0, begin_end_depth |-> 0]

\* query[i:i+n].upper() == word, delimited by non-alphanumeric characters
WordAt(query, i, word) ==
    /\ Upper(Slice(query, i, i + Len(word))) = word
    /\ (i = 0 \/ ~IsAlnum(query[i]))
    /\ (i + Len(word) >= Len(query) \/ ~IsAlnum(query[i + Len(word) + 1]))

KwBegin == <<"B", "E", "G", "I", "N">>
KwEnd == <<"E", "N", "D">>

\* Faulty variant: a quote in a string always ends it.
EscapedQuoteNever(query, st) == FALSE

\* The check for escaped quotes: the next character is the string's quote too.
EscapedQuote(query, st) ==
    st.i + 1 < Len(query) /\ query[st.i + 2] = st.string_char

\* Faulty variant: every semicolon outside strings and brackets separates.
TrueSeparatorAtAnyDepth(char, st) == char = ";"

\* "This is a true statement separator": the test made outside strings and
\* brackets.
TrueSeparator(char, st) ==
    char = ";" /\ st.paren_depth = 0 /\ st.begin_end_depth = 0

\* One iteration of the while loop over the characters.
ScanStep(query, st) ==
    LET char == query[st.i + 1]
        keep == [st EXCEPT !.current_statement = Append(@, char), !.i = @ + 1]
    IN  IF char \in {"'", "\""} /\ ~st.in_string
        THEN [keep EXCEPT !.in_string = TRUE, !.string_char = char]
        ELSE IF char = st.string_char /\ st.in_string
        THEN IF EscapedQuote(query, st)
             THEN [st EXCEPT !.current_statement = @ \o <<char, char, char>>,
                             !.i = @ + 2]
             ELSE [keep EXCEPT !.in_string = FALSE, !.string_char = ""]
        ELSE IF char = "[" /\ ~st.in_string
        THEN [keep EXCEPT !.in_bracket = TRUE]
        ELSE IF char = "]" /\ st.in_bracket /\ ~st.in_string
        THEN [keep EXCEPT !.in_bracket = FALSE]
        ELSE IF ~st.in_string /\ ~st.in_bracket
        THEN IF char = "("
             THEN [keep EXCEPT !.paren_depth = @ + 1]
             ELSE IF char = ")"
             THEN [keep EXCEPT !.paren_depth = @ - 1]
             ELSE IF Upper(Slice(query, st.i, st.i + 5)) = KwBegin
             THEN IF WordAt(query, st.i, KwBegin)
                  THEN [keep EXCEPT !.begin_end_depth = @ + 1]
                  ELSE keep
             ELSE IF Upper(Slice(query, st.i, st.i + 3)) = KwEnd
             THEN IF WordAt(query, st.i, KwEnd)
                  THEN [keep EXCEPT !.begin_end_depth = Max({0, @ - 1})]
                  ELSE keep
             ELSE IF TrueSeparator(char, st)
             THEN [st EXCEPT
                     !.statements = IF Strip(st.current_statement) # <<>>
                                    THEN Append(@, Strip(st.current_statement))
                                    ELSE @,
                     !.current_statement = <<>>,
                     !.i = @ + 1]
             ELSE keep
        ELSE keep

RECURSIVE ScanFrom(_, _)
ScanFrom(query, st) ==
    IF st.i < Len(query) THEN ScanFrom(query, ScanStep(query, st)) ELSE st

\* The statements once the loop has ended: the trailing statement is added.
ScanResult(st) ==
    IF Strip(st.current_statement) # <<>>
    THEN Append(st.statements, Strip(st.current_statement))
    ELSE st.statements

\* The character scan with the trailing statement added.
CharScan(query) == ScanResult(ScanFrom(query, ScanInit))

\* The text the character scan runs on.
CleanedQuery(query0) == StripComments(Strip(query0))

\* The steps before the character scan return the result.
ReturnsBeforeScan(query0) ==
    \/ Strip(query0) = <<>>
    \/ HasGoLine(Strip(query0))
    \/ DropCreateReturned(Strip(query0))
    \/ ReturnedWhole(CleanedQuery(query0))

\* What the steps before the character scan return.
ResultBeforeScan(query0) ==
    LET query == Strip(query0)
    IN  IF query = <<>> THEN <<>>
        ELSE IF HasGoLine(query) THEN GoBatches(query)
        ELSE IF DropCreateReturned(query) THEN DropCreateParts(query)
        ELSE <<CleanedQuery(query0)>>

\* QueryExecutor._split_sql_statements
SplitSqlStatements(query0) ==
    IF ReturnsBeforeScan(query0) THEN ResultBeforeScan(query0)
    ELSE StripNonEmpty(CharScan(CleanedQuery(query0)))

\* ---------------------------------------------------- _format_query_results
min_width == 8
max_width == 30

\* rows[:100], the rows sampled for the widths
SampleRows == 100

DigitChars == <<"0", "1", "2", "3", "4", "5", "6", "7", "8", "9">>

\* str() of a non-negative integer
RECURSIVE DigitsOf(_)
DigitsOf(n) ==
    IF n < 10 THEN <<DigitChars[n + 1]>>
    ELSE Append(DigitsOf(n \div 10), DigitChars[(n % 10) + 1])

\* str(value) of a driver value: a text, an integer or None
Str(value) ==
    IF value.type = "str" THEN value.text
    ELSE IF value.type = "int" THEN DigitsOf(value.n)
    ELSE <<"N", "o", "n", "e">>

\* str.ljust(width)
Ljust(text, width) ==
    text \o [k \in 1..(width - Len(text)) |-> " "]

\* truncate_text(text, width)
TruncateText(value, width) ==
    LET text == Str(value)
    IN  IF Len(text) <= width THEN text
        ELSE SubSeq(text, 1, width - 3) \o <<".", ".", ".">>

\* the loop that fills col_widths
ColWidths(column_names, rows) ==
    [i \in 1..Len(column_names) |->
        LET name_width == Len(Str(column_names[i]))
            sample == SubSeq(rows, 1, Min({SampleRows, Len(rows)}))
            data_widths == {Len(Str(sample[k][i])) : k \in 1..Len(sample)}
            max_data_width == IF data_widths # {} THEN Max(data_widths) ELSE 0
        IN  Max({min_width, Min({max_width, Max({name_width, max_data_width})})})]

\* the cells of header_content: str(name).ljust(width)
HeaderCells(column_names, col_widths) ==
    [i \in 1..Min({Len(column_names), Len(col_widths)}) |->
        Ljust(Str(column_names[i]), col_widths[i])]

\* the cells of one row_content: truncate_text(value, width).ljust(width)
RowCells(row, col_widths) ==
    [i \in 1..Min({Len(row), Len(col_widths)}) |->
        Ljust(TruncateText(row[i], col_widths[i]), col_widths[i])]

\* ------------------------------------------------------------------ inputs
DatabasePool == <<"db1", "db2", "db3", "db4">>
Databases == {DatabasePool[k] : k \in 1..MaxTargets}

\* The database explorer's selections: lists of distinct database names.
TargetLists ==
    {s \in UNION {[1..n -> Databases] : n \in 0..MaxTargets} :
        \A i, j \in 1..Len(s) : i # j => s[i] # s[j]}

\* The editor's texts: empty, blank, terminator only, comment only, one and
\* two statements.
QueryTexts ==
    { <<>>,
      <<" ">>,
      <<";">>,
      <<"-", "-", "x">>,
      <<"S">>,
      <<"S", ";", "T">> }

\* What the driver reports for one execution: a sequence of result sets, each
\* with column metadata (description) or without, and its number of rows.
RowsSet == [description |-> TRUE, n |-> 2]
EmptySet == [description |-> TRUE, n |-> 0]
CountSet == [description |-> FALSE, n |-> 1]

DriverResponses == { <<RowsSet>>, <<EmptySet, CountSet>> }

\* The outcomes of executing one statement: the driver's response, or a
\* pyodbc.DatabaseError, or any other exception (a lost connection).
DriverOutcomes ==
    {[error |-> "none", response |-> resp] : resp \in DriverResponses}
    \cup {[error |-> "DatabaseError", response |-> <<>>],
          [error |-> "Exception", response |-> <<>>]}

\* The statements of each text of the editor, split once per text.
SplitResults == [query \in QueryTexts |-> SplitSqlStatements(query)]

\* ------------------------------------------------------------------- state
VARIABLES
    query_running,   \* SQLToolApp.query_running
    save_log_btn,    \* state of MainUI.save_log_btn
    message_queue,   \* SQLToolApp.message_queue, each event tagged with its run
    ui_polling,      \* the UI thread is inside check_queue's drain loop
    runs,            \* number of submissions accepted so far
    worker,          \* the worker threads, one per accepted run
    done_count,      \* number of done events each run has published
    split,           \* one call of _split_sql_statements, statement by statement
    table            \* one call of _format_query_results

vars == <<query_running, save_log_btn, message_queue, ui_polling,
          runs, worker, done_count, split, table>>

Runs == 1..MaxRuns

\* A thread that is not running (not started yet, or ended).
NoThread ==
    [pc |-> "none", databases |-> <<>>, query |-> <<>>, statements |-> <<>>,
     db_idx |-> 0, stmt_idx |-> 0, conn |-> "",
     db_total_rows |-> 0, db_errors |-> <<>>, db_statement_count |-> 0,
     db_results |-> <<>>, databases_info |-> <<>>, overall_total_rows |-> 0,
     sent |-> 0, trace |-> <<>>]

\* No call of the splitter is being followed.
NoCall ==
    [pc |-> "none", text |-> <<>>, query |-> <<>>, scan |-> ScanInit, out |-> <<>>]

\* No call of the formatter is being followed.
NoTable ==
    [pc |-> "none", column_names |-> <<>>, rows |-> <<>>, col_widths |-> <<>>,
     header |-> <<>>, data |-> <<>>]

Init ==
    /\ query_running = FALSE
    /\ save_log_btn = "disabled"
    /\ message_queue = <<>>
    /\ ui_polling = FALSE
    /\ runs = 0
    /\ worker = [r \in Runs |-> NoThread]
    /\ done_count = [r \in Runs |-> 0]
    /\ split = NoCall
    /\ table = NoTable

\* ----------------------------------------------------------- QueryExecutor
Event(type, r, msg) == [type |-> type, run |-> r, msg |-> msg]

\* message_queue.put by the worker of run r, recorded in its trace
Put(w, ev) == [w EXCEPT !.trace = Append(@, <<"put", ev.type, ev.msg>>)]

\* Faulty variant: the check of the split result is missing.
ValidationWithoutSplitCheck(databases, query) ==
    \/ Strip(query) = <<>>
    \/ databases = <<>>

\* execute_query's validation: empty or blank query, no databases, no statements
ValidationError(databases, query) ==
    \/ Strip(query) = <<>>
    \/ databases = <<>>
    \/ SplitResults[query] = <<>>

\* The result sets kept by the fetch loop: a set with columns is kept only
\* when it has rows; a set without columns is kept with its row count.
RECURSIVE KeptResultSets(_)
KeptResultSets(resp) ==
    IF resp = <<>> THEN <<>>
    ELSE IF Head(resp).description /\ Head(resp).n = 0
         THEN KeptResultSets(Tail(resp))
         ELSE <<Head(resp)>> \o KeptResultSets(Tail(resp))

\* The rendered blocks of one successful statement i on db.
StatementBlocks(resp, db, i) ==
    LET kept == KeptResultSets(resp)
    IN  IF kept = <<>>
        THEN << [kind |-> "completed", db |-> db, stmt |-> i, set |-> 0, rows |-> 0] >>
        ELSE [j \in 1..Len(kept) |->
                IF kept[j].description
                THEN [kind |-> "rows", db |-> db, stmt |-> i,
                      set |-> IF Len(kept) > 1 THEN j ELSE 0, rows |-> kept[j].n]
                ELSE IF kept[j].n > 0
                THEN [kind |-> "affected", db |-> db, stmt |-> i, set |-> 0,
                      rows |-> kept[j].n]
                ELSE [kind |-> "completed", db |-> db, stmt |-> i, set |-> 0,
                      rows |-> 0]]

RECURSIVE SumRows(_)
SumRows(resp) ==
    IF resp = <<>> THEN 0
    ELSE (IF Head(resp).description THEN Head(resp).n ELSE 0) + SumRows(Tail(resp))

StatementErrorBlock(db, i) ==
    [kind |-> "statement_error", db |-> db, stmt |-> i, set |-> 0, rows |-> 0]

ConnectionErrorBlock(db) ==
    [kind |-> "connection_error", db |-> db, stmt |-> 0, set |-> 0, rows |-> 0]

\* The order in which execute_query visits the databases.
TargetOrder(databases) == databases

\* The db of the current call of _execute_on_database
CurrentDb(w) == TargetOrder(w.databases)[w.db_idx]

\* Faulty variant: the targets after the first get the list back to front.
StatementsReordered(w) ==
    IF w.db_idx > 1 THEN Reverse(w.statements) ELSE w.statements

\* The statements argument of the current call of _execute_on_database: the
\* list execute_query split before its loop.
StatementsOf(w) == w.statements

\* The record _execute_on_database returns
DbInfo(w) ==
    [name |-> CurrentDb(w),
     total_rows |-> w.db_total_rows,
     status |-> IF w.db_errors = <<>> THEN "Success" ELSE "Error",
     statement_count |-> w.db_statement_count,
     errors |-> w.db_errors,
     results |-> w.db_results]

\* Faulty variant: the inner except clause catches nothing.
CaughtNever(error) == FALSE

\* The inner except clause catches pyodbc.DatabaseError and goes on.
CaughtPerStatement(error) == error = "DatabaseError"

\* Faulty variant: the outer except clause renders the block and forgets the
\* error list.
WithConnectionBlockOnly(w) ==
    [w EXCEPT !.db_results = Append(@, ConnectionErrorBlock(CurrentDb(w)))]

\* The outer except clause: record a connection error for the target.
WithConnectionError(w) ==
    [w EXCEPT !.db_results = Append(@, ConnectionErrorBlock(CurrentDb(w))),
              !.db_errors = Append(@, <<"Connection">>)]

\* Faulty variant: the loop over the databases stops at the first database
\* that reported an error.
ReturnDbInfoStopOnError(w) ==
    [w EXCEPT !.databases_info = Append(@, DbInfo(w)),
              !.overall_total_rows = @ + w.db_total_rows,
              !.trace = Append(@, <<"record", CurrentDb(w)>>),
              !.pc = IF w.db_idx < Len(w.databases) /\ w.db_errors = <<>>
                     THEN "status" ELSE "summary",
              !.db_idx = IF w.db_idx < Len(w.databases) /\ w.db_errors = <<>>
                         THEN @ + 1 ELSE @]

\* Return from _execute_on_database into execute_query's loop: append the
\* record, add its rows, and go to the next database or to _send_results.
ReturnDbInfo(w) ==
    [w EXCEPT !.databases_info = Append(@, DbInfo(w)),
              !.overall_total_rows = @ + w.db_total_rows,
              !.trace = Append(@, <<"record", CurrentDb(w)>>),
              !.pc = IF w.db_idx < Len(w.databases) THEN "status" ELSE "summary",
              !.db_idx = IF w.db_idx < Len(w.databases) THEN @ + 1 ELSE @]

\* Faulty variant: the connection is left open.
CloseConnectionMissing(w) == w

\* Leaving the with block: database_connection's finally closes the connection.
CloseConnection(w) ==
    [w EXCEPT !.conn = "", !.trace = Append(@, <<"close", w.conn>>)]

\* Faulty variant: an exception leaves the with block without closing.
RaiseThroughWithOpen(w) == w

\* An exception raised inside the with block passes through
\* database_connection's finally, which closes the connection.
RaiseThroughWith(w) == CloseConnection(w)

\* Faulty variant: one commit, after the last statement of the target.
CommitAtEnd(w, db, i) ==
    IF i = Len(StatementsOf(w))
    THEN [w EXCEPT !.trace = Append(@, <<"commit", db, i>>)]
    ELSE w

\* conn.commit() after statement i was executed and its results rendered
Commit(w, db, i) == [w EXCEPT !.trace = Append(@, <<"commit", db, i>>)]

\* Faulty variants: the records walked first to last.
SummaryOrderForward(databases_info) == databases_info

SendOrderForward(databases_info) == databases_info

\* The order of the summary table's data rows.
SummaryOrder(databases_info) == Reverse(databases_info)

\* The order in which _send_results walks the records.
SendOrder(databases_info) == Reverse(databases_info)

\* Faulty variant: the first message whatever the number of errors.
ErrorSummaryFirstOnly(errors) ==
    IF errors = <<>> THEN <<"None">> ELSE errors[1]

\* The error column: None, the one message, or "N error(s)".
ErrorSummary(errors) ==
    IF errors = <<>> THEN <<"None">>
    ELSE IF Len(errors) = 1 THEN errors[1]
    ELSE <<"error(s)", Len(errors)>>

\* The data rows of _generate_execution_summary
SummaryRows(databases_info) ==
    LET infos == SummaryOrder(databases_info)
    IN  [k \in 1..Len(infos) |->
            [name |-> infos[k].name, rows |-> infos[k].total_rows,
             statements |-> infos[k].statement_count, status |-> infos[k].status,
             errors |-> ErrorSummary(infos[k].errors)]]

\* The result blocks in the order _send_results puts them
ResultsToSend(databases_info) ==
    LET infos == SendOrder(databases_info)
    IN  Flatten([k \in 1..Len(infos) |-> infos[k].results])

\* ------------------------------------------------ worker thread of one run
SetWorker(r, w) == worker' = [worker EXCEPT ![r] = w]

UIUnchanged ==
    UNCHANGED <<query_running, save_log_btn, ui_polling, runs, split, table>>

\* execute_query up to the for loop: validate and split once.
ExecuteQueryStart(r) ==
    LET w == worker[r] IN
    /\ w.pc = "start"
    /\ SetWorker(r, IF ValidationError(w.databases, w.query)
                     THEN [w EXCEPT !.pc = "error"]
                     ELSE [w EXCEPT !.pc = "status",
                                    !.statements = SplitResults[w.query],
                                    !.db_idx = 1])
    /\ UNCHANGED <<message_queue, done_count>>
    /\ UIUnchanged

\* _execute_on_database: reset the per-database locals, publish the status.
PublishStatus(r) ==
    LET w == worker[r]
        db == CurrentDb(w)
        ev == Event("status", r, db)
    IN
    /\ w.pc = "status"
    /\ message_queue' = Append(message_queue, ev)
    /\ SetWorker(r, Put([w EXCEPT !.pc = "connect",
                                  !.db_total_rows = 0, !.db_errors = <<>>,
                                  !.db_statement_count = 0, !.db_results = <<>>,
                                  !.stmt_idx = 0], ev))
    /\ UNCHANGED done_count
    /\ UIUnchanged

\* database_connection: pyodbc.connect succeeds (ok), or raises into the
\* outer except. With no statement to run the with block ends at once.
Connect(r, ok) ==
    LET w == worker[r]
        db == CurrentDb(w)
        opened == [w EXCEPT !.conn = db, !.trace = Append(@, <<"open", db>>)]
    IN
    /\ w.pc = "connect"
    /\ IF ok
       THEN IF StatementsOf(w) = <<>>
            THEN SetWorker(r, ReturnDbInfo(CloseConnection(opened)))
            ELSE SetWorker(r, [opened EXCEPT !.pc = "execute", !.stmt_idx = 1])
       ELSE SetWorker(r, ReturnDbInfo(WithConnectionError(
                            [w EXCEPT !.trace = Append(@, <<"open_failed", db>>)])))
    /\ UNCHANGED <<message_queue, done_count>>
    /\ UIUnchanged

\* The state after statement i ended (succeeded or was caught per statement):
\* the next statement, or the end of the with block and the return.
AfterStatement(w) ==
    IF w.stmt_idx < Len(StatementsOf(w))
    THEN [w EXCEPT !.stmt_idx = @ + 1]
    ELSE ReturnDbInfo(CloseConnection(w))

\* One iteration of the statement loop of _execute_on_database, the driver
\* answering with outcome out.
ExecuteStatement(r, out) ==
    LET w == worker[r]
        db == CurrentDb(w)
        i == w.stmt_idx
        w1 == [w EXCEPT !.db_statement_count = @ + 1,
                        !.trace = Append(@, <<"execute", db, i, out.error,
                                             StatementsOf(w)[i], out.response>>)]
    IN
    /\ w.pc = "execute"
    /\ IF out.error = "none"
       THEN SetWorker(r, AfterStatement(Commit(
                [w1 EXCEPT !.db_results = @ \o StatementBlocks(out.response, db, i),
                           !.db_total_rows = @ + SumRows(KeptResultSets(out.response))],
                db, i)))
       ELSE IF CaughtPerStatement(out.error)
       THEN SetWorker(r, AfterStatement(
                [w1 EXCEPT !.db_results = Append(@, StatementErrorBlock(db, i)),
                           !.db_errors = Append(@, <<"Statement", i>>)]))
       ELSE SetWorker(r, ReturnDbInfo(WithConnectionError(RaiseThroughWith(w1))))
    /\ UNCHANGED <<message_queue, done_count>>
    /\ UIUnchanged

\* _send_results: the summary first.
PublishSummary(r) ==
    LET w == worker[r]
        ev == Event("execution_summary", r, SummaryRows(w.databases_info))
    IN
    /\ w.pc = "summary"
    /\ message_queue' = Append(message_queue, ev)
    /\ SetWorker(r, Put([w EXCEPT !.pc = IF ResultsToSend(w.databases_info) = <<>>
                                         THEN "done" ELSE "results",
                                  !.sent = 0], ev))
    /\ UNCHANGED done_count
    /\ UIUnchanged

\* _send_results: one result block.
PublishResult(r) ==
    LET w == worker[r]
        blocks == ResultsToSend(w.databases_info)
        ev == Event("result", r, blocks[w.sent + 1])
    IN
    /\ w.pc = "results"
    /\ message_queue' = Append(message_queue, ev)
    /\ SetWorker(r, Put([w EXCEPT !.sent = @ + 1,
                                  !.pc = IF w.sent + 1 < Len(blocks)
                                         THEN "results" ELSE "done"], ev))
    /\ UNCHANGED done_count
    /\ UIUnchanged

\* The events _execute_query_thread publishes once execute_query has ended
\* (returned: ok, or raised), in order.
FinalEvents(r, ok) ==
    IF ok
    THEN << Event("done", r, "Query execution completed"),
            Event("enable_log_button", r, TRUE) >>
    ELSE << Event("error", r, "Query execution failed"),
            Event("done", r, "Query execution failed") >>

CountDone(ev) == IF ev.type = "done" THEN 1 ELSE 0

\* _execute_query_thread after execute_query returned: first event.
PublishDone(r) ==
    LET w == worker[r]
        ev == FinalEvents(r, TRUE)[1]
    IN
    /\ w.pc = "done"
    /\ message_queue' = Append(message_queue, ev)
    /\ SetWorker(r, Put([w EXCEPT !.pc = "enable"], ev))
    /\ done_count' = [done_count EXCEPT ![r] = @ + CountDone(ev)]
    /\ UIUnchanged

\* _execute_query_thread after execute_query returned: second event; the
\* thread ends.
PublishEnableLog(r) ==
    LET w == worker[r]
        ev == FinalEvents(r, TRUE)[2]
    IN
    /\ w.pc = "enable"
    /\ message_queue' = Append(message_queue, ev)
    /\ SetWorker(r, NoThread)
    /\ done_count' = [done_count EXCEPT ![r] = @ + CountDone(ev)]
    /\ UIUnchanged

\* _execute_query_thread's except clause: first event.
PublishError(r) ==
    LET w == worker[r]
        ev == FinalEvents(r, FALSE)[1]
    IN
    /\ w.pc = "error"
    /\ message_queue' = Append(message_queue, ev)
    /\ SetWorker(r, Put([w EXCEPT !.pc = "done_failed"], ev))
    /\ done_count' = [done_count EXCEPT ![r] = @ + CountDone(ev)]
    /\ UIUnchanged

\* _execute_query_thread's except clause: second event; the thread ends.
PublishDoneFailed(r) ==
    LET w == worker[r]
        ev == FinalEvents(r, FALSE)[2]
    IN
    /\ w.pc = "done_failed"
    /\ message_queue' = Append(message_queue, ev)
    /\ SetWorker(r, NoThread)
    /\ done_count' = [done_count EXCEPT ![r] = @ + CountDone(ev)]
    /\ UIUnchanged

\* ------------------------------------------------------------ the UI thread
\* Faulty variant: the running flag is not consulted.
NeverRunning == FALSE

\* start_query_thread's first check
AlreadyRunning == query_running

\* start_query_thread's checks of the selection and of the query text
SubmissionInvalid(databases, query) == databases = <<>> \/ Strip(query) = <<>>

\* start_query_thread while a query runs: the "Wait" warning, nothing else.
RejectWhileRunning ==
    /\ ~ui_polling
    /\ AlreadyRunning
    /\ UNCHANGED vars

\* start_query_thread with no database selected or a blank query: a warning,
\* nothing else.
RejectInvalid(databases, query) ==
    /\ ~ui_polling
    /\ ~AlreadyRunning
    /\ SubmissionInvalid(databases, query)
    /\ UNCHANGED vars

\* start_query_thread: the destructive-query confirmation answered no.
DeclineDangerous(databases, query) ==
    /\ ~ui_polling
    /\ ~AlreadyRunning
    /\ ~SubmissionInvalid(databases, query)
    /\ UNCHANGED vars

\* start_query_thread accepting the submission: running state, worker thread.
AcceptSubmission(databases, query) ==
    /\ ~ui_polling
    /\ ~AlreadyRunning
    /\ ~SubmissionInvalid(databases, query )
    /\ runs < MaxRuns
    /\ worker' = [worker EXCEPT ![runs + 1] =
                     [NoThread EXCEPT !.pc = "start", !.databases = databases,
                                      !.query = query]]
    /\ runs' = runs + 1
    /\ query_running' = TRUE
    /\ save_log_btn' = "disabled"
    /\ UNCHANGED <<ui_polling, message_queue, done_count, split, table>>

\* Faulty variant: the done event leaves the running flag set.
RunningAfterIgnoringDone(ev, running) == running

\* check_queue's handler of the done event
RunningAfter(ev, running) == IF ev.type = "done" THEN FALSE ELSE running

\* check_queue: one get_nowait and its handler.
CheckQueueGet ==
    /\ message_queue # <<>>
    /\ LET ev == Head(message_queue) IN
          /\ query_running' = RunningAfter(ev, query_running)
          /\ save_log_btn' = IF ev.type = "enable_log_button" THEN "normal"
                             ELSE save_log_btn
    /\ message_queue' = Tail(message_queue)
    /\ ui_polling' = TRUE
    /\ UNCHANGED <<runs, worker, done_count, split, table>>

\* check_queue: get_nowait raises Empty, the drain loop ends.
CheckQueueEmpty ==
    /\ ui_polling
    /\ message_queue = <<>>
    /\ ui_polling' = FALSE
    /\ UNCHANGED <<query_running, save_log_btn, message_queue, runs, worker,
                   done_count, split, table>>

\* ---------------------------------------------------------- specifications
\* The steps of the worker thread of run r that need no outside answer.
WorkerPublishes(r) ==
    \/ ExecuteQueryStart(r)
    \/ PublishStatus(r)
    \/ PublishSummary(r)
    \/ PublishResult(r)
    \/ PublishDone(r)
    \/ PublishEnableLog(r)
    \/ PublishError(r)
    \/ PublishDoneFailed(r)

\* The execution engine: the first submission of the session, every selection,
\* text and driver outcome, with the UI thread polling beside it.
Next ==
    \/ RejectWhileRunning
    \/ \E databases \in TargetLists, query \in QueryTexts :
          \/ RejectInvalid(databases, query)
          \/ DeclineDangerous(databases, query)
          \/ (runs = 0 /\ AcceptSubmission(databases, query))
    \/ CheckQueueGet
    \/ CheckQueueEmpty
    \/ \E r \in Runs :
          \/ WorkerPublishes(r)
          \/ \E ok \in BOOLEAN : Connect(r, ok)
          \/ \E out \in DriverOutcomes : ExecuteStatement(r, out)

Spec == Init /\ [][Next]_vars

\* The session: up to MaxRuns submissions, one database, short texts.
SessionTargetLists == {s \in TargetLists : Len(s) <= 1}
SessionQueryTexts == { <<" ">>, <<";">>, <<"S">> }
SessionOutcomes == {o \in DriverOutcomes : o.response \in {<<>>, <<RowsSet>>}}

SessionWorker(r) ==
    \/ WorkerPublishes(r)
    \/ \E ok \in BOOLEAN : Connect(r, ok)
    \/ \E out \in SessionOutcomes : ExecuteStatement(r, out)

SessionPoller == CheckQueueGet \/ CheckQueueEmpty

SessionNext ==
    \/ RejectWhileRunning
    \/ \E databases \in SessionTargetLists, query \in SessionQueryTexts :
          \/ RejectInvalid(databases, query)
          \/ DeclineDangerous(databases, query)
          \/ AcceptSubmission(databases, query)
    \/ SessionPoller
    \/ \E r \in Runs : SessionWorker(r)

SessionSpec == Init /\ [][SessionNext]_vars

\* The worker thread runs on its own and the poller is rescheduled every
\* 100 ms (root.after), so both are weakly fair.
SessionLiveSpec ==
    /\ SessionSpec
    /\ WF_vars(SessionPoller)
    /\ \A r \in Runs : WF_vars(SessionWorker(r))

\* --------------------------------------------- the splitter, step by step
\* All texts of at most n characters over an alphabet.
TextsUpTo(alphabet, n) == UNION {[1..k -> alphabet] : k \in 0..n}

\* The characters the scanner distinguishes.
ScanAlphabet == {"a", ";", "'", "\"", "(", ")", "[", "]", " "}

\* Pieces of SQL text: statements, separators, comments, keywords.
SplitWords ==
    <<
      <<"S">>,
      <<";">>,
      <<" ">>,
      <<"\n">>,
      <<"G", "O">>,
      <<"g", "o", " ">>,
      <<"-", "-", "c">>,
      <<"'", "a", ";", "b", "'">>,
      <<"B", "E", "G", "I", "N", " ">>,
      <<"E", "N", "D">>,
      <<"E", "X", "E", "C", " ", "p">>,
      <<"D", "E", "C", "L", "A", "R", "E", " ", "@", "v">>,
      <<"C", "R", "E", "A", "T", "E", " ", "P", "R", "O", "C", " ", "p", " ">>,
      <<"D", "R", "O", "P", " ", "T", "R", "I", "G", "G", "E", "R", " ", "t", " ">>,
      <<"A", "L", "T", "E", "R", " ", "F", "U", "N", "C", "T", "I", "O", "N", " ", "f", " ">>,
      <<"C", "R", "E", "A", "T", "E", " ", "V", "I", "E", "W", " ", "v", " ", "A", "S", " ", "S", "E", "L", "E", "C", "T", " ", "1">>,
      <<"S", ";", "T">>,
      <<"\n", "G", "O", "\n">>
    >>

\* The texts made of at most n pieces.
RECURSIVE WordTexts(_)
WordTexts(n) ==
    IF n = 0 THEN {<<>>}
    ELSE WordTexts(n - 1)
         \cup {t \o SplitWords[k] : t \in WordTexts(n - 1), k \in 1..Len(SplitWords)}

\* The texts made of at most n pieces of a list of pieces.
RECURSIVE PieceTexts(_, _)
PieceTexts(words, n) ==
    IF n = 0 THEN {<<>>}
    ELSE PieceTexts(words, n - 1)
         \cup {t \o words[k] : t \in PieceTexts(words, n - 1), k \in 1..Len(words)}

\* Pieces of SQL text with BEGIN and END as words and inside identifiers.
BlockWords ==
    <<
      <<"B", "E", "G", "I", "N", " ">>,
      <<"E", "N", "D">>,
      <<";">>,
      <<"S">>,
      <<" ">>,
      <<"S", ";">>,
      <<"C", "A", "S", "E", " ", "E", "N", "D">>,
      <<"C", "A", "S", "E", " ", "E", "N", "D", ";">>,
      <<"b", "e", "g", "i", "n", "_", "d", "a", "t", "e">>,
      <<"e", "n", "d", "_", "t", "i", "m", "e">>,
      <<"B", "E", "G", "I", "N", "S">>,
      <<"[">>,
      <<"]">>,
      <<"'">>,
      <<"(">>,
      <<")">>
    >>

\* Texts with the IF OBJECT_ID ... DROP PROCEDURE guard: text before it, the
\* guard, text between it and the CREATE, the CREATE, text after it.
GuardTexts ==
    LET guard == <<"I", "F", " ", "O", "B", "J", "E", "C", "T", "_", "I", "D", "(", "'", "p", "'", ")", " ", "I", "S", " ", "N", "O", "T", " ", "N", "U", "L", "L", " ", "D", "R", "O", "P", " ", "P", "R", "O", "C", "E", "D", "U", "R", "E", " ", "p", ";">>
        before == {
            <<>>,
            <<"S", ";", "\n">>,
            <<"-", "-", "c", "\n">>,
            <<"S", " ">>
          }
        between == {
            <<>>,
            <<" ">>,
            <<"\n">>,
            <<"\n", "\n">>,
            <<"\n", "-", "-", "c", "\n">>,
            <<"\n", " ", " ", "-", "-", "c", "\n", "\n">>,
            <<"\n", "S", ";", "\n">>,
            <<" ", "S", ";", " ">>
          }
        create == {
            <<"C", "R", "E", "A", "T", "E", " ", "P", "R", "O", "C", "E", "D", "U", "R", "E", " ", "p", " ", "A", "S", " ", "S">>,
            <<" ", " ", "c", "r", "e", "a", "t", "e", " ", "p", "r", "o", "c", "e", "d", "u", "r", "e", " ", "p", " ", "a", "s", " ", "S", ";", "T">>,
            <<"C", "R", "E", "A", "T", "E", " ", "P", "R", "O", "C", " ", "p", " ", "A", "S", " ", "S">>,
            <<"C", "R", "E", "A", "T", "E", " ", "T", "A", "B", "L", "E", " ", "t", "\n", "C", "R", "E", "A", "T", "E", " ", "P", "R", "O", "C", "E", "D", "U", "R", "E", " ", "p", " ", "A", "S", " ", "S">>,
            <<>>
          }
        after == {
            <<>>,
            <<"\n", "-", "-", "c", "\n", "T">>,
            <<";", "T">>,
            <<"\n", "T", " ", "-", "-", "c">>,
            <<"\n", "\n", " ", " ", "-", "-", "c">>,
            <<"\n", "T", "\n", "-", "-", "c", "\n", "U">>
          }
    IN  {b \o guard \o g \o c \o a :
            b \in before, g \in between, c \in create, a \in after}

SplitTexts ==
    TextsUpTo(ScanAlphabet, MaxChars) \cup WordTexts(MaxWords)
        \cup PieceTexts(BlockWords, MaxWords) \cup GuardTexts

\* A call of _split_sql_statements with some text.
SplitInit ==
    /\ query_running = FALSE
    /\ save_log_btn = "disabled"
    /\ message_queue = <<>>
    /\ ui_polling = FALSE
    /\ runs = 0
    /\ worker = [r \in Runs |-> NoThread]
    /\ done_count = [r \in Runs |-> 0]
    /\ \E text \in SplitTexts : split = [NoCall EXCEPT !.pc = "call", !.text = text]
    /\ table = NoTable

AppUnchanged ==
    UNCHANGED <<query_running, save_log_btn, message_queue, ui_polling, runs,
                worker, done_count, table>>

\* The steps before the character scan return: empty text, GO batches, the
\* guard and the CREATE PROCEDURE, or the whole text.
SplitReturnEarly ==
    /\ split.pc = "call"
    /\ ReturnsBeforeScan(split.text)
    /\ split' = [split EXCEPT !.pc = "returned", !.out = ResultBeforeScan(split.text)]
    /\ AppUnchanged

\* The scanner's variables are initialised.
SplitStartScan ==
    /\ split.pc = "call"
    /\ ~ReturnsBeforeScan(split.text)
    /\ split' = [split EXCEPT !.pc = "scan", !.query = CleanedQuery(split.text),
                              !.scan = ScanInit]
    /\ AppUnchanged

\* One iteration of the while loop.
SplitScanStep ==
    /\ split.pc = "scan"
    /\ split.scan.i < Len(split.query)
    /\ split' = [split EXCEPT !.scan = ScanStep(split.query, split.scan)]
    /\ AppUnchanged

\* The loop has ended: the last statement is added, the list returned.
SplitReturn ==
    /\ split.pc = "scan"
    /\ split.scan.i >= Len(split.query)
    /\ split' = [split EXCEPT !.pc = "returned",
                              !.out = StripNonEmpty(ScanResult(split.scan))]
    /\ AppUnchanged

SplitNext ==
    \/ SplitReturnEarly
    \/ SplitStartScan
    \/ SplitScanStep
    \/ SplitReturn

SplitSpec == SplitInit /\ [][SplitNext]_vars

\* ------------------------------------------- the formatter, step by step
MaxCols == 2

\* a text of n characters
TextOf(n) == [type |-> "str", text |-> [k \in 1..n |-> "x"]]

\* Column names shorter than min_width and longer than max_width.
ColumnNames == {TextOf(3), TextOf(max_width + 1)}

\* The value most rows hold in a column, and the value one row holds.
UsualValues == {[type |-> "null"], [type |-> "int", n |-> 1234567890], TextOf(5)}
LongValues == {TextOf(min_width + 1), TextOf(max_width + 3)}

ColumnShapes == [name : ColumnNames, usual : UsualValues, long : LongValues]

\* Row counts: none, a few, more than the sample.
RowCounts == {0, 3, SampleRows + 1}

\* The row that holds the long values: in the sample, its last, after it.
LongRows == {2, SampleRows, SampleRows + 1}

\* The rows of a result set whose columns have the given shapes.
RowsOf(shapes, n, at) ==
    [k \in 1..n |->
        [i \in 1..Len(shapes) |-> IF k = at THEN shapes[i].long ELSE shapes[i].usual]]

\* A call of _format_query_results with some description and rows.
FormatInit ==
    /\ query_running = FALSE
    /\ save_log_btn = "disabled"
    /\ message_queue = <<>>
    /\ ui_polling = FALSE
    /\ runs = 0
    /\ worker = [r \in Runs |-> NoThread]
    /\ done_count = [r \in Runs |-> 0]
    /\ split = NoCall
    /\ \E c \in 1..MaxCols : \E shapes \in [1..c -> ColumnShapes] :
       \E n \in RowCounts : \E at \in LongRows :
           table = [NoTable EXCEPT
                      !.pc = "call",
                      !.column_names = [i \in 1..c |-> shapes[i].name],
                      !.rows = RowsOf(shapes, n, at)]

TableUnchanged ==
    UNCHANGED <<query_running, save_log_btn, message_queue, ui_polling, runs,
                worker, done_count, split>>

\* if not rows: the "No rows returned" block is returned, without a table
FormatNoRows ==
    /\ table.pc = "call"
    /\ table.rows = <<>>
    /\ table' = [table EXCEPT !.pc = "returned"]
    /\ TableUnchanged

\* The column widths are calculated.
FormatWidths ==
    /\ table.pc = "call"
    /\ table.rows # <<>>
    /\ table' = [table EXCEPT !.pc = "widths",
                              !.col_widths = ColWidths(table.column_names, table.rows)]
    /\ TableUnchanged

\* The header line and the data rows are built and the table is returned.
FormatTable ==
    /\ table.pc = "widths"
    /\ table' = [table EXCEPT
                   !.pc = "returned",
                   !.header = HeaderCells(table.column_names, table.col_widths),
                   !.data = [k \in 1..Len(table.rows) |->
                                RowCells(table.rows[k], table.col_widths)]]
    /\ TableUnchanged

FormatNext ==
    \/ FormatNoRows
    \/ FormatWidths
    \/ FormatTable

FormatSpec == FormatInit /\ [][FormatNext]_vars

\* ------------------------------------------------------------ trace helpers
IsPut(e, type) == e[1] = "put" /\ e[2] = type

\* positions of the connection attempts (opened or failed) in a trace
AttemptsAt(t) == {p \in 1..Len(t) : t[p][1] \in {"open", "open_failed"}}

\* positions of the executions on db in a trace
ExecutesAt(t, db) == {p \in 1..Len(t) : t[p][1] = "execute" /\ t[p][2] = db}

\* the k-th smallest element of a finite set of numbers
RECURSIVE Nth(_, _)
Nth(S, k) == IF k = 1 THEN Min(S) ELSE Nth(S \ {Min(S)}, k - 1)

\* the elements of a trace at the positions S, in order
Picked(t, S) == [k \in 1..Cardinality(S) |-> t[Nth(S, k)]]

\* execute_query has left its loop over the databases
PostLoop(w) == w.pc \in {"summary", "results", "done", "enable"}

\* the worker is inside _execute_on_database
InLoop(w) == w.pc \in {"status", "connect", "execute"}

CountOf(seq, x) == Cardinality({k \in 1..Len(seq) : seq[k] = x})

CountKind(blocks, kind) == Cardinality({k \in 1..Len(blocks) : blocks[k].kind = kind})

\* ------------------------------------------------------------------ claims
\* C1: every run produces exactly one execution record per target, in target
\* order, whatever statements and connections fail; a failure on one target
\* never keeps a later target from being attempted and recorded.
C1_OneRecordPerTarget ==
    \A r \in Runs :
        LET w == worker[r]
            t == w.trace
            recs == {p \in 1..Len(t) : t[p][1] = "record"}
        IN  /\ InLoop(w) => Len(w.databases_info) = w.db_idx - 1
            /\ PostLoop(w) => Len(w.databases_info) = Len(w.databases)
            /\ Cardinality(recs) = Len(w.databases_info)
            /\ \A k \in 1..Len(w.databases_info) :
                  /\ w.databases_info[k].name = w.databases[k]
                  /\ t[Nth(recs, k)][2] = w.databases[k]
                  /\ Cardinality({p \in AttemptsAt(t) : t[p][2] = w.databases[k]}) = 1

\* C1 witness: the first target failed, the second was still executed with rows.
C1_Witness ==
    \E r \in Runs :
        LET w == worker[r] IN
        /\ PostLoop(w)
        /\ Len(w.databases_info) = 2
        /\ w.databases_info[1].status = "Error"
        /\ w.databases_info[2].status = "Success"
        /\ w.databases_info[2].total_rows > 0

\* The blocks and errors recorded so far for db: the finished record's, or the
\* locals of the call in progress.
RecordedFor(w, db) ==
    IF \E k \in 1..Len(w.databases_info) : w.databases_info[k].name = db
    THEN LET k == CHOOSE k \in 1..Len(w.databases_info) : w.databases_info[k].name = db
         IN  [results |-> w.databases_info[k].results,
              errors |-> w.databases_info[k].errors, finished |-> TRUE]
    ELSE [results |-> w.db_results, errors |-> w.db_errors, finished |-> FALSE]

\* C2: a statement-level error on statement i of a target is recorded (failure
\* block and error-list entry) and the next statement of the sequence is
\* still attempted on that target, in order.
C2_ContinueAfterStatementError ==
    \A r \in Runs :
        LET w == worker[r]
            t == w.trace
        IN  \A p \in 1..Len(t) :
              (t[p][1] = "execute" /\ t[p][4] = "DatabaseError") =>
                 LET db == t[p][2]
                     i == t[p][3]
                     rec == RecordedFor(w, db)
                     later == {q \in ExecutesAt(t, db) : q > p}
                 IN  /\ CountOf(rec.results, StatementErrorBlock(db, i)) = 1
                     /\ CountOf(rec.errors, <<"Statement", i>>) = 1
                     /\ i < Len(w.statements) =>
                           IF later = {}
                           THEN /\ ~rec.finished
                                /\ w.pc = "execute"
                                /\ w.stmt_idx = i + 1
                           ELSE t[Min(later)][3] = i + 1

\* C2 witness: statement 1 failed and statement 2 was executed afterwards.
C2_Witness ==
    \E r \in Runs :
        LET t == worker[r].trace IN
        \E p, q \in 1..Len(t) :
            /\ p < q
            /\ t[p][1] = "execute" /\ t[p][3] = 1 /\ t[p][4] = "DatabaseError"
            /\ t[q][1] = "execute" /\ t[q][2] = t[p][2] /\ t[q][3] = 2

\* C3: a target whose connection could not be opened, or that met a
\* connection-level error mid-target, runs no further statement, has exactly
\* one connection failure block and one connection entry in its error list,
\* and is not successful; when the open itself failed its statement count and
\* row count are 0.
C3_ConnectionError ==
    \A r \in Runs :
        LET w == worker[r]
            t == w.trace
        IN  \A k \in 1..Len(w.databases_info) :
              LET rec == w.databases_info[k]
                  db == rec.name
                  ex == ExecutesAt(t, db)
                  openFailed == \E p \in 1..Len(t) : t[p] = <<"open_failed", db>>
                  broken == {p \in ex : t[p][4] = "Exception"}
              IN  /\ (openFailed \/ broken # {}) =>
                        /\ CountKind(rec.results, "connection_error") = 1
                        /\ CountOf(rec.errors, <<"Connection">>) = 1
                        /\ rec.status # "Success"
                        /\ \A p \in broken : p = Max(ex)
                  /\ openFailed =>
                        /\ ex = {}
                        /\ rec.statement_count = 0
                        /\ rec.total_rows = 0
                        /\ Len(rec.results) = 1

\* C3 witness: one target failed to open, another lost its connection on its
\* second statement after a statement error on the first.
C3_Witness ==
    \E r \in Runs :
        LET w == worker[r] IN
        /\ Len(w.databases_info) = 2
        /\ w.databases_info[1].statement_count = 0
        /\ w.databases_info[1].errors = << <<"Connection">> >>
        /\ w.databases_info[2].errors = << <<"Statement", 1>>, <<"Connection">> >>

\* A submission the validation must reject
InvalidSubmission(databases, query) ==
    \/ Strip(query) = <<>>
    \/ databases = <<>>
    \/ SplitSqlStatements(query) = <<>>

\* C4: a submission with an empty or blank query or an empty target list never
\* gets a worker, and one whose query splits into zero units ends in the
\* validation error before any work: no connection is opened or attempted,
\* no statement run and no status, result or summary event published.
C4_NoWorkForInvalid ==
    \A r \in Runs :
        LET w == worker[r]
            t == w.trace
        IN  w.pc # "none" =>
              /\ w.databases # <<>>
              /\ Strip(w.query) # <<>>
              /\ InvalidSubmission(w.databases, w.query) =>
                    /\ w.pc \in {"start", "error", "done_failed"}
                    /\ w.conn = ""
                    /\ \A p \in 1..Len(t) : IsPut(t[p], "error")
                    /\ \A i \in 1..Len(message_queue) :
                          message_queue[i].run = r =>
                             message_queue[i].type \in {"error", "done"}

\* C4 witness: a run whose query has no statement has published its error.
C4_Witness ==
    \E r \in Runs :
        LET w == worker[r] IN
        /\ w.pc = "done_failed"
        /\ SplitSqlStatements(w.query) = <<>>
        /\ w.trace = << <<"put", "error", "Query execution failed">> >>

\* Run r is in flight: accepted, and its done event not yet consumed.
InFlight(r) ==
    /\ r <= runs
    /\ \/ worker[r].pc \in {"start", "status", "connect", "execute", "summary",
                            "results", "done", "error", "done_failed"}
       \/ \E i \in 1..Len(message_queue) :
              message_queue[i].type = "done" /\ message_queue[i].run = r

\* C5: at most one run is in flight, it is the latest one and the running flag
\* is set while it is; and while a run is in flight no step accepts another
\* submission: the number of runs stays, no worker thread starts, no
\* connection is opened for another run.
C5_SingleRunInFlight ==
    /\ [](/\ Cardinality({r \in Runs : InFlight(r)}) <= 1
          /\ \A r \in Runs : InFlight(r) => (query_running /\ r = runs))
    /\ [][(\E r \in Runs : InFlight(r)) =>
             /\ runs' = runs
             /\ \A r \in Runs :
                   /\ worker[r].pc = "none" => worker'[r].pc = "none"
                   /\ ~InFlight(r) => worker'[r].conn = ""]_vars

\* C5 witness: a run is in flight while the UI thread is free to take a
\* further submission and the model would still have room for one.
C5_Witness ==
    /\ runs >= 1
    /\ InFlight(runs)
    /\ worker[runs].conn # ""
    /\ ~ui_polling
    /\ runs < MaxRuns

\* C6: every accepted submission leads to exactly one done event of its run
\* and to the running flag being false again, whether execute_query returned
\* or raised.
C6_RunCompletes ==
    \A r \in Runs :
        /\ (worker[r].pc = "start") ~> (done_count[r] = 1 /\ ~query_running)
        /\ [](done_count[r] <= 1)

\* C6 witness: both a run that raised and a run that returned have published
\* their done event and the flag is false again.
C6_Witness ==
    /\ runs = 2
    /\ done_count[1] = 1 /\ done_count[2] = 1
    /\ ~query_running
    /\ save_log_btn = "disabled"
    /\ \A r \in Runs : worker[r].pc = "none"

\* The events a worker has put, summary tables reduced to their type.
PutKeys(t) ==
    LET puts == {p \in 1..Len(t) : t[p][1] = "put"}
    IN  [k \in 1..Cardinality(puts) |->
            LET e == t[Nth(puts, k)]
            IN  IF e[2] = "execution_summary" THEN <<e[2]>> ELSE <<e[2], e[3]>>]

\* C7: when a run that passed validation has published its done event, what
\* it published is: the status events of the targets in target order, one
\* summary, the result blocks grouped by target from the last target to the
\* first, each group in statement order, and the done event.
C7_PublicationOrder ==
    \A r \in Runs :
        LET w == worker[r]
            n == Len(w.databases)
            groups == [k \in 1..n |-> w.databases_info[n + 1 - k].results]
            blocks == Flatten(groups)
        IN  w.pc = "enable" =>
              /\ PutKeys(w.trace) =
                    [k \in 1..n |-> <<"status", w.databases[k]>>]
                    \o << <<"execution_summary">> >>
                    \o [k \in 1..Len(blocks) |-> <<"result", blocks[k]>>]
                    \o << <<"done", "Query execution completed">> >>
              /\ \A k \in 1..n :
                    LET res == w.databases_info[k].results
                    IN  \A i, j \in 1..Len(res) :
                           /\ res[i].db = w.databases[k]
                           /\ (i < j /\ res[j].kind # "connection_error") =>
                                 res[i].stmt <= res[j].stmt

\* C7 witness: a finished run over two targets, the first with blocks of two
\* statements.
C7_Witness ==
    \E r \in Runs :
        LET w == worker[r] IN
        /\ w.pc = "enable"
        /\ Len(w.databases) = 2
        /\ Len(w.databases_info[1].results) = 2
        /\ w.databases_info[1].results[2].stmt = 2
        /\ w.databases_info[2].results # <<>>

\* The database names of the data rows of the summary tables a worker has put.
SummaryNames(t) ==
    {[k \in 1..Len(t[p][3]) |-> t[p][3][k].name] :
        p \in {q \in 1..Len(t) : IsPut(t[q], "execution_summary")}}

C9_NoEventOfEarlierRun ==
    /\ \A r \in Runs :
          r < runs =>
             /\ worker[r].pc = "none"
             /\ \A i \in 1..Len(message_queue) : message_queue[i].run # r
    /\ query_running => save_log_btn = "disabled"

\* C10: in a worker's history every connection attempt for a target comes
\* after the status event naming it, the targets are attempted in the
\* caller-supplied order, and before the attempt every connection opened
\* earlier has been closed and every earlier target recorded; the worker never
\* holds a connection outside the target being executed.
C10_SequentialTargets ==
    \A r \in Runs :
        LET w == worker[r]
            t == w.trace
            att == AttemptsAt(t)
        IN  /\ \A k \in 1..Cardinality(att) : t[Nth(att, k)][2] = w.databases[k]
            /\ \A p \in att :
                  /\ \E q \in 1..(p - 1) :
                        IsPut(t[q], "status") /\ t[q][3] = t[p][2]
                  /\ \A q \in 1..(p - 1) :
                        /\ t[q][1] = "open" =>
                              \E c \in (q + 1)..(p - 1) : t[c] = <<"close", t[q][2]>>
                        /\ t[q][1] \in {"open", "open_failed"} =>
                              \E c \in (q + 1)..(p - 1) : t[c] = <<"record", t[q][2]>>
            /\ \A p \in 1..Len(t) :
                  t[p][1] = "record" =>
                     \A q \in 1..(p - 1) :
                        (t[q][1] = "open" /\ t[q][2] = t[p][2]) =>
                           \E c \in (q + 1)..(p - 1) : t[c] = <<"close", t[p][2]>>
            /\ w.conn # "" => (w.pc = "execute" /\ w.conn = CurrentDb(w))

\* C10 witness: the second target's connection is open after the first
\* target's connection was opened, closed and recorded.
C10_Witness ==
    \E r \in Runs :
        LET w == worker[r] IN
        /\ w.pc = "execute"
        /\ w.db_idx = 2
        /\ w.conn = w.databases[2]
        /\ \E p \in 1..Len(w.trace) : w.trace[p] = <<"close", w.databases[1]>>

\* C11: a run splits its query text once, before the first target; the list
\* never changes afterwards, and the k-th statement executed on any target is
\* the k-th statement of that one list, whatever failed on earlier targets.
C11_SameStatementsEveryTarget ==
    /\ [](\A r \in Runs :
            LET w == worker[r]
                t == w.trace
            IN  /\ (InLoop(w) \/ PostLoop(w)) =>
                      w.statements = SplitSqlStatements(w.query)
                /\ \A p \in 1..Len(t) :
                      t[p][1] = "execute" =>
                         /\ t[p][5] = SplitSqlStatements(w.query)[t[p][3]]
                         /\ t[p][3] = Cardinality({q \in ExecutesAt(t, t[p][2]) : q <= p}))
    /\ [][\A r \in Runs :
             (InLoop(worker[r]) \/ PostLoop(worker[r])) /\ worker'[r].pc # "none" =>
                worker'[r].statements = worker[r].statements]_vars

\* C11 witness: two statements ran on the second target after the first
\* target had a failed statement and then lost its connection.
C11_Witness ==
    \E r \in Runs :
        LET w == worker[r] IN
        /\ PostLoop(w)
        /\ Len(w.databases_info) = 2
        /\ w.databases_info[1].errors = << <<"Statement", 1>>, <<"Connection">> >>
        /\ w.databases_info[2].statement_count = 2
        /\ Cardinality(ExecutesAt(w.trace, w.databases[2])) = 2

\* a trace entry is the commit of statement i on db
IsCommit(e, db, i) == e[1] = "commit" /\ e[2] = db /\ e[3] = i

\* C12: on every target the commit of a statement that completed is issued
\* right after it, before the next statement is executed; so when a statement
\* fails, every statement of that target that completed before it has been
\* committed already. A commit is issued for completed statements only.
C12_CommitAfterEveryStatement ==
    \A r \in Runs :
        LET t == worker[r].trace IN
        \A p \in 1..Len(t) :
            /\ (t[p][1] = "execute" /\ t[p][4] = "none") =>
                  /\ p < Len(t)
                  /\ IsCommit(t[p + 1], t[p][2], t[p][3])
            /\ t[p][1] = "execute" =>
                  \A q \in ExecutesAt(t, t[p][2]) :
                     (q < p /\ t[q][4] = "none") =>
                        \E c \in (q + 1)..(p - 1) : IsCommit(t[c], t[q][2], t[q][3])
            /\ t[p][1] = "commit" =>
                  /\ p > 1
                  /\ t[p - 1][1] = "execute"
                  /\ t[p - 1][4] = "none"
                  /\ IsCommit(t[p], t[p - 1][2], t[p - 1][3])

\* C12 witness: statement 2 failed on a target after statement 1 completed
\* and was committed there.
C12_Witness ==
    \E r \in Runs :
        LET t == worker[r].trace IN
        \E p \in 3..Len(t) :
            /\ t[p][1] = "execute" /\ t[p][3] = 2 /\ t[p][4] = "DatabaseError"
            /\ IsCommit(t[p - 1], t[p][2], 1)
            /\ t[p - 2][1] = "execute" /\ t[p - 2][4] = "none"

\* the number of failure blocks among rendered blocks
FailureBlocks(blocks) ==
    CountKind(blocks, "statement_error") + CountKind(blocks, "connection_error")

\* C13: in every target record, and in the locals of the target being
\* executed, the error list has as many entries as the rendered results have
\* failure blocks; the status is Success exactly when the list is empty; and
\* the error column of the target's summary row is None for no error, the
\* message for one, and the count for more.
C13_ErrorsConsistent ==
    \A r \in Runs :
        LET w == worker[r]
            t == w.trace
            n == Len(w.databases_info)
        IN  /\ Len(w.db_errors) = FailureBlocks(w.db_results)
            /\ \A k \in 1..n :
                  LET rec == w.databases_info[k] IN
                  /\ Len(rec.errors) = FailureBlocks(rec.results)
                  /\ (rec.status = "Success") <=> (rec.errors = <<>>)
                  /\ rec.status \in {"Success", "Error"}
            /\ \A p \in 1..Len(t) :
                  IsPut(t[p], "execution_summary") =>
                     \A k \in 1..Len(t[p][3]) :
                        \E j \in 1..n :
                           LET rec == w.databases_info[j]
                               row == t[p][3][k]
                           IN  /\ rec.name = row.name
                               /\ row.status = rec.status
                               /\ Len(rec.errors) = 0 => row.errors = <<"None">>
                               /\ Len(rec.errors) = 1 => row.errors = rec.errors[1]
                               /\ Len(rec.errors) > 1 =>
                                     row.errors = <<"error(s)", Len(rec.errors)>>

\* C13 witness: a published summary over a target with two errors (a failed
\* statement, then a lost connection) and a target with none.
C13_Witness ==
    \E r \in Runs :
        LET w == worker[r] IN
        /\ SummaryNames(w.trace) # {}
        /\ Len(w.databases_info) = 2
        /\ Len(w.databases_info[1].errors) = 2
        /\ FailureBlocks(w.databases_info[1].results) = 2
        /\ w.databases_info[2].errors = <<>>

\* the blocks of statement i among rendered blocks
BlocksOf(blocks, i) == {k \in 1..Len(blocks) : blocks[k].stmt = i}

\* C14 as stated: a statement that completed has one rendered block per
\* result set the driver reported for it, and a statement that failed has
\* exactly one block, a failure block.
C14_OneBlockPerResultSet ==
    \A r \in Runs :
        LET w == worker[r]
            t == w.trace
        IN  \A p \in 1..Len(t) :
              t[p][1] = "execute" =>
                 LET blocks == RecordedFor(w, t[p][2]).results
                     mine == BlocksOf(blocks, t[p][3])
                 IN  /\ t[p][4] = "none" => Cardinality(mine) = Len(t[p][6])
                     /\ t[p][4] = "DatabaseError" =>
                           /\ Cardinality(mine) = 1
                           /\ \A k \in mine : blocks[k].kind = "statement_error"

\* positions of the entries of one kind in a trace
EntriesAt(t, kind) == {p \in 1..Len(t) : t[p][1] = kind}

\* C15: a worker holds at most the one connection it opened last; every
\* connection opened for a target is closed exactly once before the target's
\* record is returned, whether its statements succeeded, failed, or a
\* connection-level error was raised; once the loop over the targets is left,
\* hence when done is published, no connection of the run is open.
C15_ConnectionsReleased ==
    \A r \in Runs :
        LET w == worker[r]
            t == w.trace
            opens == EntriesAt(t, "open")
            closes == EntriesAt(t, "close")
        IN  /\ Cardinality(opens) =
                  Cardinality(closes) + (IF w.conn = "" THEN 0 ELSE 1)
            /\ \A p \in opens :
                  LET recs == {q \in EntriesAt(t, "record") : q > p /\ t[q][2] = t[p][2]}
                  IN  recs # {} =>
                        Cardinality({c \in closes : p < c /\ c < Min(recs)
                                                     /\ t[c][2] = t[p][2]}) = 1
            /\ (PostLoop(w) \/ \E p \in 1..Len(t) : IsPut(t[p], "done")) =>
                  /\ w.conn = ""
                  /\ Cardinality(opens) = Cardinality(closes)

\* C15 witness: done is published after a target that lost its connection
\* following a failed statement and a target whose statements all succeeded.
C15_Witness ==
    \E r \in Runs :
        LET w == worker[r] IN
        /\ \E p \in 1..Len(w.trace) : IsPut(w.trace[p], "done")
        /\ Len(w.databases_info) = 2
        /\ w.databases_info[1].errors = << <<"Statement", 1>>, <<"Connection">> >>
        /\ w.databases_info[2].errors = <<>>
        /\ Cardinality(EntriesAt(w.trace, "close")) = 2

\* C16: in the character scan no unit ends while the scanner is inside a
\* string literal (so a semicolon there ends none); at a doubled quote of the
\* string's own quote type the scanner steps over the pair and stays in the
\* string; and it leaves the string only at a quote of that type that is not
\* followed by another one.
C16_StringsKeepSemicolons ==
    [][(split.pc = "scan" /\ split'.pc = "scan" /\ split'.scan # split.scan) =>
          LET st == split.scan
              nx == split'.scan
              q == split.query
              char == q[st.i + 1]
              doubled == st.i + 2 <= Len(q) /\ q[st.i + 2] = st.string_char
          IN  st.in_string =>
                /\ nx.statements = st.statements
                /\ st.string_char \in {"'", "\""}
                /\ (char = st.string_char /\ doubled) =>
                      /\ nx.in_string
                      /\ nx.string_char = st.string_char
                      /\ nx.i = st.i + 2
                /\ ~nx.in_string => (char = st.string_char /\ ~doubled)
                /\ char # st.string_char =>
                      (nx.in_string /\ nx.string_char = st.string_char)]_vars

\* C16 witness: the scan has ended inside a string after a semicolon and a
\* doubled quote in it, with no unit ended.
C16_Witness ==
    /\ split.pc = "scan"
    /\ split.scan.i = Len(split.query)
    /\ split.scan.in_string
    /\ split.scan.statements = <<>>
    /\ \E k \in 2..(Len(split.query) - 2) :
          /\ split.query[k] = ";"
          /\ split.query[k + 1] = split.scan.string_char
          /\ split.query[k + 2] = split.scan.string_char

\* the call reached the check of the complex patterns: the text is not blank,
\* has no GO line and was not returned as guard and CREATE PROCEDURE
ReachesComplexCheck(text) ==
    /\ Strip(text) # <<>>
    /\ ~HasGoLine(Strip(text))
    /\ ~DropCreateReturned(Strip(text))

\* C17 as stated: when the comment-stripped text matches one of the listed
\* classes (routine, trigger, view definition, EXEC call, DECLARE @variable,
\* BEGIN...END block) the splitter returns that whole text as its one unit.
C17_AtomicClassesWhole ==
    (/\ split.pc = "returned"
     /\ ReachesComplexCheck(split.text)
     /\ ComplexPatternFound(CleanedQuery(split.text)))
        => split.out = <<CleanedQuery(split.text)>>

\* The segments of a text between its GO lines, by line numbers: segment j
\* is made of the lines after the j-th GO line (or the start) and before the
\* next one (or the end).
GoSegments(text) ==
    LET lines == SplitLines(text)
        gos == {k \in 1..Len(lines) : Upper(Strip(lines[k])) = <<"G", "O">>}
        from(j) == IF j = 1 THEN 1 ELSE Nth(gos, j - 1) + 1
        to(j) == IF j = Cardinality(gos) + 1 THEN Len(lines) ELSE Nth(gos, j) - 1
    IN  [j \in 1..(Cardinality(gos) + 1) |-> JoinLines(SubSeq(lines, from(j), to(j)))]

\* a text has a line that is GO once trimmed, letter case ignored
HasGoSeparator(text) ==
    \E k \in 1..Len(SplitLines(text)) :
        Upper(Strip(SplitLines(text)[k])) = <<"G", "O">>

\* the non-blank segments, in order
NonBlankSegments(text) ==
    LET segs == GoSegments(text)
        keep == {j \in 1..Len(segs) : Strip(segs[j]) # <<>>}
    IN  [k \in 1..Cardinality(keep) |-> Strip(segs[Nth(keep, k)])]

\* C18: for a text with a GO line the splitter returns the trimmed non-blank
\* segments between the GO lines, in order and untouched: comments, guards
\* and semicolons inside a segment stay as they are.
C18_GoBatchesAtomic ==
    (split.pc = "returned" /\ HasGoSeparator(split.text)) =>
        split.out = NonBlankSegments(split.text)

\* C18 witness: two batches are returned, the first with a semicolon inside,
\* the second a comment.
C18_Witness ==
    /\ split.pc = "returned"
    /\ HasGoSeparator(split.text)
    /\ Len(split.out) = 2
    /\ \E k \in 1..Len(split.out[1]) : split.out[1][k] = ";"
    /\ StartsWith(split.out[2], <<"-", "-">>)

\* C19: a call of the splitter always goes on to its return: every
\* iteration of the scan moves the index forward and never past the end of
\* the text (no character is read beyond it), also inside an
\* unterminated string or bracket and at any parenthesis or block depth; what
\* is returned is a list of trimmed non-empty units, the empty list for an
\* empty or blank text, and a single unit for a scanned text without
\* semicolons.
C19_SplitterTotal ==
    /\ [](/\ split.pc = "scan" => split.scan.i <= Len(split.query)
          /\ split.pc = "returned" =>
                /\ \A k \in 1..Len(split.out) :
                      split.out[k] # <<>> /\ Strip(split.out[k]) = split.out[k]
                /\ Strip(split.text) = <<>> => split.out = <<>>
                /\ (/\ ~ReturnsBeforeScan(split.text)
                    /\ split.query # <<>>
                    /\ \A k \in 1..Len(split.query) : split.query[k] # ";")
                      => Len(split.out) = 1)
    /\ [][(split.pc = "scan" /\ split'.pc = "scan" /\ split'.scan # split.scan) =>
             split'.scan.i > split.scan.i]_vars

\* C19 witness: the splitter has returned one unit for a text that closes a
\* parenthesis it never opened and then opens a string it never ends.
C19_Witness ==
    /\ split.pc = "returned"
    /\ split.scan.in_string
    /\ split.scan.paren_depth < 0
    /\ Len(split.out) = 1

\* The reference reading of a SQL text, character by character: inside a
\* string (a doubled quote of the string's type stays inside), inside a
\* bracketed identifier, and the depth of the enclosing parentheses.
RefStart == [quote |-> "", skip |-> FALSE, in_bracket |-> FALSE, depth |-> 0]

\* the reference state after the character c, followed by next_c
RefAfter(c, next_c, st) ==
    IF st.skip THEN [st EXCEPT !.skip = FALSE]
    ELSE IF st.quote # ""
    THEN IF c # st.quote THEN st
         ELSE IF next_c = st.quote THEN [st EXCEPT !.skip = TRUE]
         ELSE [st EXCEPT !.quote = ""]
    ELSE IF st.in_bracket
    THEN IF c = "]" THEN [st EXCEPT !.in_bracket = FALSE] ELSE st
    ELSE IF c \in {"'", "\""} THEN [st EXCEPT !.quote = c]
    ELSE IF c = "[" THEN [st EXCEPT !.in_bracket = TRUE]
    ELSE IF c = "(" THEN [st EXCEPT !.depth = @ + 1]
    ELSE IF c = ")" THEN [st EXCEPT !.depth = Max({0, @ - 1})]
    ELSE st

\* the reference states before each character of the text from position k on
RECURSIVE RefStates(_, _, _)
RefStates(text, k, st) ==
    IF k > Len(text) THEN <<>>
    ELSE <<st>> \o RefStates(text, k + 1,
                    RefAfter(text[k], IF k < Len(text) THEN text[k + 1] ELSE "", st))

\* the semicolons inside a string
QuotedSemicolons(text) ==
    LET sts == RefStates(text, 1, RefStart)
    IN  {k \in 1..Len(text) : text[k] = ";" /\ sts[k].quote # ""}

\* the semicolons outside strings, brackets and parentheses
RefSeparators(text) ==
    LET sts == RefStates(text, 1, RefStart)
    IN  {k \in 1..Len(text) :
            /\ text[k] = ";"
            /\ sts[k].quote = ""
            /\ ~sts[k].in_bracket
            /\ sts[k].depth = 0}

\* the reference split: the pieces between the separators, trimmed, the
\* empty ones dropped
RefSplit(text) ==
    LET seps == RefSeparators(text)
        n == Cardinality(seps)
        from(j) == IF j = 1 THEN 1 ELSE Nth(seps, j - 1) + 1
        to(j) == IF j = n + 1 THEN Len(text) ELSE Nth(seps, j) - 1
        pieces == [j \in 1..(n + 1) |-> Strip(SubSeq(text, from(j), to(j)))]
        keep == {j \in 1..(n + 1) : pieces[j] # <<>>}
    IN  [k \in 1..Cardinality(keep) |-> pieces[Nth(keep, k)]]

\* the keywords of routines, blocks and calls
ProceduralKeywords ==
    {KwBegin, KwEnd, KwCreate, KwAlter, KwDrop, KwProcedure, KwProc, KwFunction,
     KwFunc, KwTrigger, KwView, KwExec, KwExecute, KwDeclare, KwIf}

\* a text with no GO line, no procedural keyword and no semicolon in quotes
PlainSql(text) ==
    /\ ~HasGoSeparator(text)
    /\ QuotedSemicolons(CleanedQuery(text)) = {}
    /\ \A p \in 1..Len(text) : \A kw \in ProceduralKeywords : ~KwAt(text, p, kw)

\* C20 as stated: for a text with no GO line, no quoted semicolon and no
\* procedural keyword the splitter returns the reference split of the text
\* (its comments removed): same number of units, same text, same order.
C20_EqualsReferenceSplit ==
    (split.pc = "returned" /\ PlainSql(split.text)) =>
        split.out = RefSplit(CleanedQuery(split.text))

\* a unit with no separator left in it: no GO line and no semicolon
NoSeparatorIn(u) ==
    /\ ~HasGoSeparator(u)
    /\ \A p \in 1..Len(u) : u[p] # ";"

\* C21 as stated: every unit the splitter returns that contains no further
\* separator is returned unchanged, as the only unit, when it is split again.
C21_SplitIdempotent ==
    split.pc = "returned" =>
        \A k \in 1..Len(split.out) :
            NoSeparatorIn(split.out[k]) =>
                SplitSqlStatements(split.out[k]) = <<split.out[k]>>

\* x is a contiguous piece of s
IsPieceOf(x, s) ==
    \E a \in 1..(Len(s) + 1) :
        a + Len(x) - 1 <= Len(s) /\ SubSeq(s, a, a + Len(x) - 1) = x

\* C22 as stated: every unit returned by the character scan, the GO step or
\* the atomic-statement step is, character for character, a contiguous piece
\* of the submitted text or of that text with its comments removed.
C22_UnitsArePiecesOfText ==
    (split.pc = "returned" /\ ~DropCreateReturned(Strip(split.text))) =>
        \A k \in 1..Len(split.out) :
            \/ IsPieceOf(split.out[k], split.text)
            \/ IsPieceOf(split.out[k], CleanedQuery(split.text))

\* the scanner is about to read a semicolon, and the loop goes on after it
ScansSemicolon ==
    /\ split.pc = "scan"
    /\ split'.pc = "scan"
    /\ split.scan.i < Len(split.query)
    /\ split.query[split.scan.i + 1] = ";"

\* C23: in the character scan a semicolon read inside a string, inside a
\* bracketed identifier, at a parenthesis depth other than 0 or at a block
\* depth other than 0 ends no unit: no unit is emitted and the accumulated
\* text grows by the semicolon.
C23_SemicolonEndsUnitOnlyAtTopLevel ==
    [][ (/\ ScansSemicolon
         /\ \/ split.scan.in_string
            \/ split.scan.in_bracket
            \/ split.scan.paren_depth # 0
            \/ split.scan.begin_end_depth # 0)
        => /\ split'.scan.statements = split.scan.statements
           /\ split'.scan.current_statement =
                  Append(split.scan.current_statement, ";") ]_vars

\* a semicolon has just been read inside a BEGIN block, after a unit was
\* emitted at an earlier semicolon
C23_Witness ==
    /\ split.pc = "scan"
    /\ split.scan.i > 0
    /\ split.query[split.scan.i] = ";"
    /\ split.scan.begin_end_depth > 0
    /\ ~split.scan.in_string
    /\ split.scan.paren_depth = 0
    /\ split.scan.statements # <<>>
    /\ Len(split.scan.current_statement) > 1

KwCase == <<"C", "A", "S", "E">>

\* The constructs open after the first k characters of the text, innermost
\* last: the words BEGIN and CASE outside strings and brackets open one, the
\* word END closes the innermost.
RECURSIVE OpenConstructs(_, _, _)
OpenConstructs(text, sts, k) ==
    IF k = 0 THEN <<>>
    ELSE LET open == OpenConstructs(text, sts, k - 1)
             code == sts[k].quote = "" /\ ~sts[k].in_bracket
         IN  IF code /\ WholeWordAt(text, k, KwBegin) THEN Append(open, "BEGIN")
             ELSE IF code /\ WholeWordAt(text, k, KwCase) THEN Append(open, "CASE")
             ELSE IF code /\ WholeWordAt(text, k, KwEnd) /\ open # <<>>
             THEN SubSeq(open, 1, Len(open) - 1)
             ELSE open

\* position p lies between a BEGIN and its matching END, in a text whose
\* constructs are all closed
InsideBeginBlock(text, p) ==
    LET sts == RefStates(text, 1, RefStart)
        open == OpenConstructs(text, sts, p - 1)
    IN  /\ OpenConstructs(text, sts, Len(text)) = <<>>
        /\ \E j \in 1..Len(open) : open[j] = "BEGIN"

\* C24 as stated: in the character scan a semicolon between a BEGIN and its
\* matching END, also when the block holds a CASE ... END, ends no unit.
C24_BeginEndBlocksKeptWhole ==
    [][ (/\ ScansSemicolon
         /\ InsideBeginBlock(split.query, split.scan.i + 1))
        => /\ split'.scan.statements = split.scan.statements
           /\ split'.scan.current_statement =
                  Append(split.scan.current_statement, ";") ]_vars

\* C25 as stated: the block depth is never negative, and a loop iteration
\* changes it only when the character read starts the whole word BEGIN or END
\* (letter case ignored), not an identifier such as begin_date.
C25_BlockDepthAtWholeWordsOnly ==
    /\ [](split.pc = "scan" => split.scan.begin_end_depth >= 0)
    /\ [][ (/\ split.pc = "scan"
             /\ split'.pc = "scan"
             /\ split'.scan.begin_end_depth # split.scan.begin_end_depth)
            => \/ WholeWordAt(split.query, split.scan.i + 1, KwBegin)
               \/ WholeWordAt(split.query, split.scan.i + 1, KwEnd) ]_vars

\* a line that, trimmed, is empty or starts a comment
BlankOrCommentLine(line) ==
    Strip(line) = <<>> \/ StartsWith(Strip(line), <<"-", "-">>)

\* the text after the guard's semicolon
AfterGuard(text) ==
    LET query == Strip(text)
    IN  SubSeq(query, DropGuardEndAt(query, DropGuardStart(query)) + 1, Len(query))

\* the positions of the text after the guard where CREATE PROCEDURE stands
\* with nothing but blank and comment lines before it
CreateAfterGuard(text) ==
    LET rest == AfterGuard(text)
    IN  {c \in 1..Len(rest) :
            /\ SpaceAt(rest, KwChainEnd(rest, c, <<KwCreate, KwProcedure>>))
            /\ LET before == SplitLines(SubSeq(rest, 1, c - 1))
               IN  /\ \A k \in 1..(Len(before) - 1) : BlankOrCommentLine(before[k])
                   /\ Strip(before[Len(before)]) = <<>>}

\* no GO line, the guard, and a CREATE PROCEDURE definition following it
GuardThenCreate(text) ==
    /\ ~HasGoLine(Strip(text))
    /\ DropGuardStart(Strip(text)) # 0
    /\ CreateAfterGuard(text) # {}

\* the guard clause, from IF to its semicolon
GuardClause(text) ==
    LET query == Strip(text)
        p == DropGuardStart(query)
    IN  SubSeq(query, p, DropGuardEndAt(query, p))

\* the text from the CREATE keyword on
FromCreate(text) ==
    LET rest == AfterGuard(text)
    IN  SubSeq(rest, Min(CreateAfterGuard(text)), Len(rest))

\* the text from the CREATE keyword up to the first comment line after it
CreateUnit(text) ==
    LET lines == SplitLines(FromCreate(text))
        comments == {k \in 2..Len(lines) : StartsWith(Strip(lines[k]), <<"-", "-">>)}
        last == IF comments = {} THEN Len(lines) ELSE Min(comments) - 1
    IN  Strip(JoinLines(SubSeq(lines, 1, last)))

\* C26: for a text with no GO line that holds the IF OBJECT_ID ... DROP
\* PROCEDURE guard followed, after blank and comment lines only, by a CREATE
\* PROCEDURE definition, the splitter returns exactly two units: the guard
\* clause, then the text from the CREATE keyword up to the first comment
\* line after it.
C26_GuardThenCreateTwoUnits ==
    (split.pc = "returned" /\ GuardThenCreate(split.text)) =>
        split.out = <<GuardClause(split.text), CreateUnit(split.text)>>

\* returned for a text with a comment line between the guard and the CREATE
\* and a comment line after the CREATE that cuts the unit
C26_Witness ==
    /\ split.pc = "returned"
    /\ GuardThenCreate(split.text)
    /\ \E k \in 1..(Min(CreateAfterGuard(split.text)) - 1) :
           AfterGuard(split.text)[k] = "-"
    /\ Len(CreateUnit(split.text)) < Len(Strip(FromCreate(split.text)))
    /\ Len(split.out) = 2

\* the width the column i of a table should have: the longest of the name
\* and of the values of the first 100 rows, not below 8 and not above 30
ExpectedWidth(column_names, rows, i) ==
    LET lens == {Len(Str(column_names[i]))}
                   \cup {Len(Str(rows[k][i])) : k \in 1..Min({100, Len(rows)})}
        longest == Max(lens)
    IN  IF longest < 8 THEN 8 ELSE IF longest > 30 THEN 30 ELSE longest

\* C27 as stated: in a rendered table every column has the width
\* max(header length, longest value of the first 100 rows) clamped to 8..30,
\* and every cell of the column, header and data alike, is exactly that wide.
C27_CellsHaveColumnWidth ==
    (table.pc = "returned" /\ table.rows # <<>>) =>
        \A i \in 1..Len(table.column_names) :
            /\ table.col_widths[i] = ExpectedWidth(table.column_names, table.rows, i)
            /\ Len(table.header[i]) = table.col_widths[i]
            /\ \A k \in 1..Len(table.rows) :
                   Len(table.data[k][i]) = table.col_widths[i]

\* the reference reading of the text just before its position p
RefStateAt(text, p) == RefStates(text, 1, RefStart)[p]

\* C28 as stated: in the character scan a semicolon outside strings and
\* bracketed identifiers, at which every opened parenthesis has been closed
\* and the block depth is 0, ends the current unit, also after an unmatched
\* closing parenthesis.
C28_TopLevelSemicolonEndsUnit ==
    [][ (/\ ScansSemicolon
         /\ ~split.scan.in_string
         /\ ~split.scan.in_bracket
         /\ split.scan.begin_end_depth = 0
         /\ RefStateAt(split.query, split.scan.i + 1).quote = ""
         /\ ~RefStateAt(split.query, split.scan.i + 1).in_bracket
         /\ RefStateAt(split.query, split.scan.i + 1).depth = 0)
        => split'.scan.current_statement = <<>> ]_vars

\* C29 as stated: while the scanner is inside a bracketed identifier, reading
\* a character other than the closing bracket changes none of in_string,
\* string_char, in_bracket, paren_depth and begin_end_depth.
C29_BracketsFreezeScanner ==
    [][ (/\ split.pc = "scan"
         /\ split'.pc = "scan"
         /\ split.scan.in_bracket
         /\ ~split.scan.in_string
         /\ split.query[split.scan.i + 1] # "]")
        => /\ split'.scan.in_string = split.scan.in_string
           /\ split'.scan.string_char = split.scan.string_char
           /\ split'.scan.in_bracket = split.scan.in_bracket
           /\ split'.scan.paren_depth = split.scan.paren_depth
           /\ split'.scan.begin_end_depth = split.scan.begin_end_depth ]_vars

\* the characters of a text that are executable: its comments removed, its
\* whitespace and semicolons left out
ExecutableText(s) ==
    SelectSeq(RemoveBlockComments(RemoveLineComments(s)),
              LAMBDA c : ~IsSpace(c) /\ c # ";")

\* the lines of a text other than the GO separator lines
WithoutGoLines(text) ==
    JoinLines(SelectSeq(SplitLines(text), LAMBDA line : ~IsGoLine(line)))

\* C30 as stated: the units returned hold, in the order of the text and each
\* piece once, all the executable text submitted: what is left of the text
\* without its GO lines, comments, whitespace and semicolons is what is left
\* of the units, also when text precedes the guard.
C30_NoExecutableTextLost ==
    split.pc = "returned" =>
        ExecutableText(JoinLines(split.out)) = ExecutableText(WithoutGoLines(split.text))

====
